---- MODULE Spec2Model ----
(***************************************************************************)
(* Model of Tutorial04_Instancing (src/src/Tutorial04_Instancing.cpp):     *)
(* the instance-buffer population, the per-frame Update/Render cycle and   *)
(* the settings UI (grid-size slider, camera-mode radio buttons).          *)
(*                                                                         *)
(* Matrices are kept symbolically: a product Scale*Translation*RotationY   *)
(* is the record of its three factors, a view matrix the record of its     *)
(* rotation and translation, the view-projection matrix the record of its  *)
(* three factors View * SrfPreTransform * Proj.                            *)
(*                                                                         *)
(* The static float `angle` is kept exactly, as an integer count of        *)
(* AngleUnit = 0.01 * 2^-24: in these units the literal 0.01 is 2^24 and   *)
(* the floats of [0.5, 1) are the multiples of 100.                        *)
(***************************************************************************)
EXTENDS Integers, Sequences, FiniteSets

VARIABLES
    pc,                \* position of the frame loop
    ticks,             \* number of Update calls made so far
    angle,             \* static float angle (in AngleUnits)
    m_GridSize,        \* int m_GridSize
    m_CameraMode,      \* int m_CameraMode
    MaxInstances,      \* capacity constant the instance buffer is created with
    PreTransform,      \* swap chain's surface pre-transform
    m_InstanceBuffer,  \* GPU instance buffer: description and last upload
    m_ViewProjMatrix,  \* float4x4 m_ViewProjMatrix
    m_RotationMatrix,  \* float4x4 m_RotationMatrix
    m_VSConstants,     \* contents of the "VS constants CB" buffer
    drawn,             \* DrawIndexed calls issued by the last Render
    uploads,           \* PopulateInstanceBuffer calls made by the last handler
    heapOverrun,       \* a write past the end of InstanceData has happened
    afterUI,           \* state as UpdateUI left it in the last Update
    stamp              \* tick in which the buffer / the matrix was last written

vars == <<pc, ticks, angle, m_GridSize, m_CameraMode, MaxInstances, PreTransform,
          m_InstanceBuffer, m_ViewProjMatrix, m_RotationMatrix, m_VSConstants,
          drawn, uploads, heapOverrun, afterUI, stamp>>

----------------------------------------------------------------------------
(* Bounds of the model *)

MaxTicks == 3

\* CurrTime and ElapsedTime are drawn from 0 .. MaxTime
MaxTime == 2

\* the class's initial m_CameraMode is probed over -ModeMargin .. 4 + ModeMargin
ModeMargin == 3

----------------------------------------------------------------------------
(* float arithmetic of `angle += 0.01` *)

\* 1.0f in AngleUnits
FloatOne == 1677721600

\* PI_F / 4 as a float: 0xC90FDB * 2^-24
InitialAngle == 1317679500

\* the double literal 0.01
AngleStep == 16777216

\* spacing of the floats around x, for x in [0.25, 2)
Ulp(x) == IF x < FloatOne \div 2 THEN 50 ELSE IF x < FloatOne THEN 100 ELSE 200

\* double -> float conversion, round to nearest, ties to even
RoundToFloat(x) ==
    LET u == Ulp(x)
        q == x \div u
        r == x % u
    IN  IF 2 * r < u THEN q * u
        ELSE IF 2 * r > u THEN (q + 1) * u
        ELSE IF q % 2 = 0 THEN q * u ELSE (q + 1) * u

\* angle += 0.01: the float is widened, the sum is taken in double and
\* narrowed back to float
AddAngleStep(a) == RoundToFloat(a + AngleStep)

----------------------------------------------------------------------------
(* Program constants *)

\* sizeof(float4x4)
MatrixBytes == 64

\* DrawAttrs.NumIndices
CubeIndices == 36

\* range of the "Grid Size" slider
SliderMin == 32
SliderMax == 32

\* m_GridSize as the class declares it, and the largest grid the class allows
DefaultGridSize == 5
MaxGridSize == 32

\* MaxInstances as the class declares it
DeclaredMaxInstances == MaxGridSize * MaxGridSize * MaxGridSize

\* m_CameraMode as the class declares it
DefaultCameraMode == 0

\* "the user did not touch this control in this frame"
NoInput == 0 - 1

----------------------------------------------------------------------------
(* Symbolic matrices *)

\* float4x4::Scale(sx,sy,sz) * float4x4::Translation(tx,ty,tz) * float4x4::RotationY(a),
\* the scale factors in hundredths
Transform(sx, sy, sz, tx, ty, tz, a) ==
    [scale |-> <<sx, sy, sz>>, trans |-> <<tx, ty, tz>>, rotY |-> a]

\* the 20 matrices PopulateInstanceBuffer writes, in the order of instId
Layout(a) ==
    << Transform(70, 70, 70,   0, 4,  0, a),    \* Center lv 1
       Transform(60, 60, 60,   6, 6,  0, a),    \* Right lv 1
       Transform(60, 60, 60,  -6, 6,  0, a),    \* Left lv 1
       Transform(60, 60, 60,   0, 6,  6, a),    \* Front lv 1
       Transform(60, 60, 60,   0, 6, -6, a),    \* Back lv 1
       Transform(50, 50, 50,   6, 3,  0, a),    \* Right lv 2
       Transform(50, 50, 50,  -6, 3,  0, a),    \* Left lv 2
       Transform(50, 50, 50,   0, 3,  6, a),    \* Front lv 2
       Transform(50, 50, 50,   0, 3, -6, a),    \* Back lv 2
       Transform(50, 50, 50,   6, 0,  0, a),    \* Right lv 3
       Transform(50, 50, 50,  -6, 0,  0, a),    \* Left lv 3
       Transform(50, 50, 50,   0, 0,  6, a),    \* Front lv 3
       Transform(50, 50, 50,   0, 0, -6, a),    \* Back lv 3
       Transform(600, 8, 8,    0, 8,  0, a),    \* tube
       Transform(8, 8, 600,    0, 8,  0, a),    \* tube
       Transform(8, 200, 8,    0, 6,  0, a),    \* rods
       Transform(8, 400, 8,    6, 4,  0, a),
       Transform(8, 400, 8,    0, 4,  6, a),
       Transform(8, 400, 8,   -6, 4,  0, a),
       Transform(8, 400, 8,    0, 4, -6, a) >>

\* the five view matrices of Update
DefaultView == [rot |-> "RotationX(-0.3)",  trans |-> <<0, 0, 40>>]
FrontView   == [rot |-> "Identity",         trans |-> <<0, 0, 40>>]
TopView     == [rot |-> "RotationX(-PI/2)", trans |-> <<0, 0, 40>>]
SideView    == [rot |-> "RotationY(PI/2)",  trans |-> <<0, 0, 40>>]
BottomView  == [rot |-> "RotationX(PI/2)",  trans |-> <<0, 0, 40>>]

\* a float4x4 the program has not assigned yet
UnsetView   == [rot |-> "unset", trans |-> <<0, 0, 0>>]
UnsetMatrix == [view |-> UnsetView, pre |-> "unset", proj |-> "unset"]
UnsetRotation == [rotY |-> 0, rotX |-> 0, set |-> FALSE]

\* SelectView with the `default:` label left out: a mode no case names leaves
\* View as it was declared
SelectView_NoDefault(mode) ==
    CASE mode = 0 -> DefaultView
      [] mode = 1 -> FrontView
      [] mode = 2 -> TopView
      [] mode = 3 -> SideView
      [] mode = 4 -> BottomView
      [] OTHER    -> UnsetView

\* the switch on m_CameraMode in Update
SelectView(mode) ==
    CASE mode = 1 -> FrontView
      [] mode = 2 -> TopView
      [] mode = 3 -> SideView
      [] mode = 4 -> BottomView
      [] OTHER    -> DefaultView

\* pre-transforms a swap chain can report
SurfaceTransforms == {"IDENTITY", "ROTATE_90"}

\* GetSurfacePretransformMatrix(float3{0, 0, 1})
GetSurfacePretransformMatrix(pre) ==
    IF pre = "ROTATE_90" THEN "RotationArbitrary(z, -PI/2)" ELSE "Identity"

\* GetAdjustedProjectionMatrix(PI_F / 4.0f, 0.1f, 100.f)
GetAdjustedProjectionMatrix(pre) ==
    IF pre = "ROTATE_90" THEN "Projection(PI/4, 0.1, 100, swapped)"
    ELSE "Projection(PI/4, 0.1, 100)"

----------------------------------------------------------------------------
(* PopulateInstanceBuffer *)

\* number of matrices the layout writes (the final value of instId)
NumFigures == Len(Layout(InitialAngle))

\* InstanceCount with the vector sized by the grid's edge
InstanceCount_Edge(g) == g

\* InstanceData(zGridSize * zGridSize * zGridSize): the length of the vector
InstanceCount(g) == g * g * g

\* static_cast<Uint32>(sizeof(InstanceData[0]) * InstanceData.size()):
\* 64 * n mod 2^32 is 64 * (n mod 2^26)
DataSize(n) == MatrixBytes * (n % 67108864)

\* InstBuffDesc.Size
BufferSize(maxInstances) == MatrixBytes * maxInstances

\* m_InstanceBuffer before CreateInstanceBuffer
NullBuffer == [Size |-> 0, bytes |-> 0, count |-> 0, data |-> <<>>, status |-> "null"]

\* What UpdateBuffer can do with `bytes` bytes. The sample checks nothing
\* itself; a request that fits is carried out, one that does not is either
\* stopped by the engine's development-build validation or written past the
\* end of the buffer.
UpdateBufferOutcomes(buf, bytes) ==
    IF bytes <= buf.Size THEN {"ok"} ELSE {"assert", "overrun"}

\* The application object as the handlers' steps pass it on: the static
\* angle, the fields, and the bookkeeping of the running handler.
PopulateInstanceBuffer(s, o) ==
    IF s.aborted THEN s
    ELSE
      LET n     == InstanceCount(s.grid)
          a     == AddAngleStep(s.angle)
          lay   == Layout(a)
          kept  == IF n < Len(lay) THEN n ELSE Len(lay)
          bytes == DataSize(n)
          t     == [s EXCEPT !.angle = a,
                             !.populations = @ + 1,
                             !.overrun = @ \/ (\E i \in 0 .. Len(lay) - 1 : i >= n)]
      IN  IF bytes > s.buf.Size /\ o = "assert"
          THEN [t EXCEPT !.aborted = TRUE]
          ELSE [t EXCEPT !.buf = [Size   |-> s.buf.Size,
                                  bytes  |-> bytes,
                                  count  |-> n,
                                  data   |-> SubSeq(lay, 1, kept),
                                  status |-> IF bytes <= s.buf.Size THEN "ok"
                                             ELSE "overrun"],
                         !.bufStamp = s.frame]

\* CreateInstanceBuffer: create the buffer, then populate it
CreateInstanceBuffer(s, maxInstances, o) ==
    PopulateInstanceBuffer(
        [s EXCEPT !.buf = [Size |-> BufferSize(maxInstances), bytes |-> 0,
                           count |-> 0, data |-> <<>>, status |-> "created"]], o)

----------------------------------------------------------------------------
(* UpdateUI *)

\* SliderInputs with the slider's upper end one past the largest grid
SliderInputs_PastMax == {NoInput} \cup (SliderMin .. SliderMax + 1)

\* values the user can drag the "Grid Size" slider to
SliderInputs == {NoInput} \cup (SliderMin .. SliderMax)

\* the five radio buttons
RadioInputs == {NoInput} \cup (0 .. 4)

\* UpdateUI repopulating the buffer on a camera-mode change too
UpdateUI_RadioRepopulates(s, slider, radio, o) ==
    LET s1 == IF slider # NoInput /\ slider # s.grid
              THEN PopulateInstanceBuffer([s EXCEPT !.grid = slider], o)
              ELSE s
    IN  IF s1.aborted \/ radio = NoInput THEN s1
        ELSE IF radio # s1.mode
        THEN PopulateInstanceBuffer([s1 EXCEPT !.mode = radio], o)
        ELSE s1

\* SliderInt stores the value and reports a change when it differs;
\* RadioButton stores its own value when it is pressed.
UpdateUI(s, slider, radio, o) ==
    LET s1 == IF slider # NoInput /\ slider # s.grid
              THEN PopulateInstanceBuffer([s EXCEPT !.grid = slider], o)
              ELSE s
    IN  IF s1.aborted \/ radio = NoInput THEN s1
        ELSE [s1 EXCEPT !.mode = radio]

----------------------------------------------------------------------------
(* Update *)

\* m_ViewProjMatrix = View * SrfPreTransform * Proj
ViewProj(mode, pre) ==
    [view |-> SelectView(mode),
     pre  |-> GetSurfacePretransformMatrix(pre),
     proj |-> GetAdjustedProjectionMatrix(pre)]

\* m_RotationMatrix = RotationY(CurrTime * 0.f) * RotationX(CurrTime * 0.f)
RotationMatrix(CurrTime) ==
    [rotY |-> CurrTime * 0, rotX |-> CurrTime * 0, set |-> TRUE]

\* UpdateSteps with the view selected before the UI is processed
UpdateSteps_ViewBeforeUI(s, slider, radio, o, pre, CurrTime) ==
    LET u == UpdateUI(s, slider, radio, o)
        p == PopulateInstanceBuffer(u, o)
    IN  [ui  |-> u,
         app |-> p,
         vp  |-> ViewProj(s.mode, pre),
         rot |-> RotationMatrix(CurrTime)]

\* The body of Update in its order: UpdateUI, PopulateInstanceBuffer, then the
\* view selection and the matrices.
UpdateSteps(s, slider, radio, o, pre, CurrTime) ==
    LET u == UpdateUI(s, slider, radio, o)
        p == PopulateInstanceBuffer(u, o)
    IN  [ui  |-> u,
         app |-> p,
         vp  |-> ViewProj(p.mode, pre),
         rot |-> RotationMatrix(CurrTime)]

----------------------------------------------------------------------------
(* Render *)

\* RenderNumInstances with one factor missing
RenderNumInstances_Squared(g) == g * g

\* DrawAttrs.NumInstances = m_GridSize * m_GridSize * m_GridSize
RenderNumInstances(g) == g * g * g

\* the DrawIndexed calls of one Render
RenderDraws(g, buf) ==
    << [NumIndices |-> CubeIndices, NumInstances |-> RenderNumInstances(g),
        instances |-> buf] >>

\* CBConstants[0] = m_ViewProjMatrix; CBConstants[1] = m_RotationMatrix
RenderConstants(vp, rot) == [viewProj |-> vp, rotation |-> rot]

----------------------------------------------------------------------------
(* State machine *)

\* the object at the start of a handler
Self(frame) ==
    [angle |-> angle, grid |-> m_GridSize, mode |-> m_CameraMode,
     buf |-> m_InstanceBuffer, populations |-> 0, overrun |-> heapOverrun,
     aborted |-> FALSE, frame |-> frame, bufStamp |-> stamp.upload,
     mode0 |-> m_CameraMode, grid0 |-> m_GridSize]

\* what afterUI records of the object
Snapshot(s) ==
    [angle |-> s.angle, grid |-> s.grid, mode |-> s.mode, buf |-> s.buf,
     populations |-> s.populations, mode0 |-> s.mode0, grid0 |-> s.grid0]

TimeValues == 0 .. MaxTime

\* everything but the fields the class declares
InitRest ==
    /\ pc = "constructed"
    /\ ticks = 0
    /\ angle = InitialAngle
    /\ PreTransform \in SurfaceTransforms
    /\ m_InstanceBuffer = NullBuffer
    /\ m_ViewProjMatrix = UnsetMatrix
    /\ m_RotationMatrix = UnsetRotation
    /\ m_VSConstants = RenderConstants(UnsetMatrix, UnsetRotation)
    /\ drawn = <<>>
    /\ uploads = 0
    /\ heapOverrun = FALSE
    /\ afterUI = [angle |-> InitialAngle, grid |-> 0, mode |-> 0,
                  buf |-> NullBuffer, populations |-> 0, mode0 |-> 0,
                  grid0 |-> 0]
    /\ stamp = [upload |-> 0, viewProj |-> 0]

Init ==
    /\ InitRest
    /\ m_GridSize \in {DefaultGridSize, MaxGridSize}
    /\ m_CameraMode = DefaultCameraMode
    /\ MaxInstances = DeclaredMaxInstances

\* Initialize: CreatePipelineState, the cube's buffers and texture, then
\* CreateInstanceBuffer
Initialize ==
    /\ pc = "constructed"
    /\ \E o \in UpdateBufferOutcomes([Size |-> BufferSize(MaxInstances)],
                                     DataSize(InstanceCount(m_GridSize))) :
         LET r == CreateInstanceBuffer(Self(0), MaxInstances, o)
         IN  /\ pc' = IF r.aborted THEN "aborted" ELSE "initialized"
             /\ angle' = r.angle
             /\ m_InstanceBuffer' = r.buf
             /\ uploads' = r.populations
             /\ heapOverrun' = r.overrun
             /\ stamp' = [stamp EXCEPT !.upload = r.bufStamp]
    /\ UNCHANGED <<ticks, m_GridSize, m_CameraMode, MaxInstances, PreTransform,
                   m_ViewProjMatrix, m_RotationMatrix, m_VSConstants, drawn,
                   afterUI>>

\* Update(CurrTime, ElapsedTime), with what the user does in this frame
Update(CurrTime, ElapsedTime) ==
    /\ pc \in {"initialized", "rendered"}
    /\ ticks < MaxTicks
    /\ \E slider \in SliderInputs, radio \in RadioInputs :
       \E o \in UpdateBufferOutcomes(m_InstanceBuffer,
                    DataSize(InstanceCount(IF slider = NoInput THEN m_GridSize
                                           ELSE slider))) :
         LET r == UpdateSteps(Self(ticks + 1), slider, radio, o, PreTransform,
                              CurrTime)
         IN  /\ ticks' = ticks + 1
             /\ angle' = r.app.angle
             /\ m_GridSize' = r.app.grid
             /\ m_CameraMode' = r.app.mode
             /\ m_InstanceBuffer' = r.app.buf
             /\ uploads' = r.app.populations
             /\ heapOverrun' = r.app.overrun
             /\ afterUI' = Snapshot(r.ui)
             /\ IF r.app.aborted
                THEN /\ pc' = "aborted"
                     /\ stamp' = [stamp EXCEPT !.upload = r.app.bufStamp]
                     /\ UNCHANGED <<m_ViewProjMatrix, m_RotationMatrix>>
                ELSE /\ pc' = "updated"
                     /\ stamp' = [upload |-> r.app.bufStamp, viewProj |-> ticks + 1]
                     /\ m_ViewProjMatrix' = r.vp
                     /\ m_RotationMatrix' = r.rot
    /\ UNCHANGED <<MaxInstances, PreTransform, m_VSConstants, drawn>>

\* Render
Render ==
    /\ pc = "updated"
    /\ pc' = "rendered"
    /\ m_VSConstants' = RenderConstants(m_ViewProjMatrix, m_RotationMatrix)
    /\ drawn' = RenderDraws(m_GridSize, m_InstanceBuffer)
    /\ uploads' = 0
    /\ UNCHANGED <<ticks, angle, m_GridSize, m_CameraMode, MaxInstances,
                   PreTransform, m_InstanceBuffer, m_ViewProjMatrix,
                   m_RotationMatrix, heapOverrun, afterUI, stamp>>

Next ==
    \/ Initialize
    \/ \E CurrTime \in TimeValues, ElapsedTime \in TimeValues :
         Update(CurrTime, ElapsedTime)
    \/ Render

Spec == Init /\ [][Next]_vars

----------------------------------------------------------------------------
(* Specifications over the values the class could declare *)

\* any initial camera mode, in and out of the range of the radio buttons
InitView ==
    /\ InitRest
    /\ m_GridSize \in {DefaultGridSize, MaxGridSize}
    /\ m_CameraMode \in (0 - ModeMargin) .. (4 + ModeMargin)
    /\ MaxInstances = DeclaredMaxInstances

SpecView == InitView /\ [][Next]_vars

\* a buffer that holds the largest grid exactly, and one that is one matrix short
InitCapacity ==
    /\ InitRest
    /\ m_GridSize \in {DefaultGridSize, MaxGridSize}
    /\ m_CameraMode = DefaultCameraMode
    /\ MaxInstances \in {DeclaredMaxInstances - 1, DeclaredMaxInstances}

SpecCapacity == InitCapacity /\ [][Next]_vars

----------------------------------------------------------------------------
(* Claims *)

\* a step of Update
IsUpdateStep == ticks' = ticks + 1

\* C1: every Update, whatever the times passed and whatever the UI reports
\* (a grid-size change included), advances the angle by exactly one step.
C1_AngleOncePerUpdate ==
    [][IsUpdateStep => angle' = AddAngleStep(angle)]_vars

C3_DrawMatchesUpload ==
    pc = "rendered" =>
        /\ Len(drawn) = 1
        /\ drawn[1].NumIndices = 36
        /\ drawn[1].NumInstances = m_InstanceBuffer.count
        /\ drawn[1].instances = m_InstanceBuffer

\* C3 witness: a Render of a frame whose UI changed the grid size
C3_Witness ==
    /\ pc = "rendered"
    /\ afterUI.grid # afterUI.grid0
    /\ Len(drawn) = 1
    /\ drawn[1].NumInstances = 32768

\* C4: after Initialize and exactly one Update the angle is PI/4 plus one
\* step, and the first entry uploaded is
\* Scale(0.7,0.7,0.7) * Translation(0,4,0) * RotationY(PI/4 + one step).
C4_FirstTick ==
    (pc = "updated" /\ ticks = 1) =>
        /\ angle = AddAngleStep(InitialAngle)
        /\ m_InstanceBuffer.data[1] =
               Transform(70, 70, 70, 0, 4, 0, AddAngleStep(InitialAngle))

\* C5: a frame in which the user changes the camera mode (and not the grid
\* size): the UI leaves the angle, the grid size and the uploaded data as
\* they were and repopulates nothing, and the pre-transform and projection
\* factors of the view-projection matrix are those of every other mode.
C5_CameraModeOnlyView ==
    [][(IsUpdateStep /\ m_CameraMode' # m_CameraMode /\ m_GridSize' = m_GridSize) =>
          /\ afterUI'.mode = m_CameraMode'
          /\ afterUI'.angle = angle
          /\ afterUI'.grid = m_GridSize
          /\ afterUI'.buf = m_InstanceBuffer
          /\ afterUI'.populations = 0
          /\ uploads' = 1
          /\ m_ViewProjMatrix'.pre = GetSurfacePretransformMatrix(PreTransform)
          /\ m_ViewProjMatrix'.proj = GetAdjustedProjectionMatrix(PreTransform)
          /\ pc = "rendered" =>
               /\ m_ViewProjMatrix'.pre = m_ViewProjMatrix.pre
               /\ m_ViewProjMatrix'.proj = m_ViewProjMatrix.proj
               /\ m_ViewProjMatrix'.view # m_ViewProjMatrix.view]_vars

\* C5 witness: an Update, not the first, in which only the camera mode changed
C5_Witness ==
    /\ pc = "updated"
    /\ ticks >= 2
    /\ afterUI.mode # afterUI.mode0
    /\ afterUI.grid = afterUI.grid0
    /\ afterUI.populations = 0

C7_LayoutGenerationPure ==
    [][uploads' > 0 =>
          /\ angle' = angle
          /\ pc # "constructed" => m_InstanceBuffer'.data = m_InstanceBuffer.data]_vars

C10_ViewTotal ==
    pc \in {"updated", "rendered"} =>
        /\ m_ViewProjMatrix.view # UnsetView
        /\ m_CameraMode = 1 => m_ViewProjMatrix.view = FrontView
        /\ m_CameraMode = 2 => m_ViewProjMatrix.view = TopView
        /\ m_CameraMode = 3 => m_ViewProjMatrix.view = SideView
        /\ m_CameraMode = 4 => m_ViewProjMatrix.view = BottomView
        /\ m_CameraMode \notin 1 .. 4 =>
               m_ViewProjMatrix.view =
                   [rot |-> "RotationX(-0.3)", trans |-> <<0, 0, 40>>]

\* C10 witness: an Update with a camera mode outside 0..4
C10_Witness ==
    /\ pc = "updated"
    /\ m_CameraMode \notin 0 .. 4
    /\ m_ViewProjMatrix.view = DefaultView

====
